---- MODULE Spec2Model ----
(***************************************************************************)
(* Model of the literate-transcript generator (src/unnamed/part_000).      *)
(* The script reads one file, has esprima parse it into comments and       *)
(* tokens, merges and sorts the two lists by start position, and makes one *)
(* pass over the merged list that writes block-comment values as prose and *)
(* everything else as slices of the source text inside code fences.        *)
(*                                                                         *)
(* Text is modelled as a sequence of one-character strings.  JavaScript's  *)
(* undefined is modelled by the value Undefined; String.prototype          *)
(* .substring is modelled with its coercion, clamping and swapping rules.  *)
(* Array.prototype.sort is called with a comparator that never returns 0,  *)
(* so the order of ties is implementation-defined (ECMA-262 15.4.4.11):    *)
(* the model chooses between the two insertion sorts V8 has used for short *)
(* arrays.                                                                 *)
(***************************************************************************)
EXTENDS Integers, Sequences, FiniteSets, TLC

\* ---------------------------------------------------------------- bounds
\* longest file, counted in lexical items (tokens, comments, white space)
MaxItems == 4
\* longest comment list and token list handed to the merge directly
MaxSpans == 2

\* ------------------------------------------------------------- text
Undefined == -1

Min(a, b) == IF a < b THEN a ELSE b
Max(a, b) == IF a > b THEN a ELSE b

RECURSIVE Flatten(_)
Flatten(ss) == IF ss = <<>> THEN <<>> ELSE Head(ss) \o Flatten(Tail(ss))

\* String.prototype.substring(start, end): undefined/NaN -> 0, both indices
\* clamped to [0, length], swapped when start > end.
ClampIndex(s, v) == IF v = Undefined THEN 0 ELSE Min(Max(v, 0), Len(s))
SubstringFrom(s, start, end) == Min(ClampIndex(s, start), ClampIndex(s, end))
SubstringTo(s, start, end) == Max(ClampIndex(s, start), ClampIndex(s, end))
Substring(s, start, end) ==
    SubSeq(s, SubstringFrom(s, start, end) + 1, SubstringTo(s, start, end))

\* the fence markers the pass appends, and the newline added on write
\* (Backquote stands for the grave accent U+0060, which cannot be written
\* inside a TLA+ string; no file of the model contains it)
Backquote == "U+0060"
OpenFence == <<Backquote, Backquote, Backquote, "j", "s">>
CloseFence == <<"\n", Backquote, Backquote, Backquote>>
Newline == <<"\n">>

\* ------------------------------------------------- files and the parser
\* A file is a sequence of lexical items; its text is their concatenation.
Item(type, text, value) == [type |-> type, text |-> text, value |-> value]

Space == Item("WhiteSpace", <<" ">>, <<>>)
LineBreak == Item("WhiteSpace", <<"\n">>, <<>>)
Ident == Item("Identifier", <<"x">>, <<"x">>)
Semi == Item("Punctuator", <<";">>, <<";">>)
BlockC == Item("Block", <<"/", "*", "c", "*", "/">>, <<"c">>)
LineC == Item("Line", <<"/", "/", "l">>, <<"l">>)
Illegal == Item("Illegal", <<"#">>, <<>>)

Items == {Space, LineBreak, Ident, Semi, BlockC, LineC, Illegal}

\* "/* hello */\nvar x = 1;"
HelloBlock ==
    Item("Block", <<"/", "*", " ", "h", "e", "l", "l", "o", " ", "*", "/">>,
         <<" ", "h", "e", "l", "l", "o", " ">>)
HelloLayout ==
    << HelloBlock, LineBreak,
       Item("Keyword", <<"v", "a", "r">>, <<"v", "a", "r">>), Space,
       Ident, Space,
       Item("Punctuator", <<"=">>, <<"=">>), Space,
       Item("Numeric", <<"1">>, <<"1">>), Semi >>

TextOf(layout) == Flatten([k \in 1..Len(layout) |-> layout[k].text])

\* What a scanner can have produced: a line comment runs to the end of its
\* line, and two identifier characters in a row are one identifier.
Scannable(layout) ==
    \A k \in 1..(Len(layout) - 1) :
        /\ layout[k].type = "Line" => layout[k + 1] = LineBreak
        /\ layout[k].type = "Identifier" => layout[k + 1].type # "Identifier"

BoundedSeqs(S, n) == UNION {[1..m -> S] : m \in 0..n}

Layouts == {l \in BoundedSeqs(Items, MaxItems) : Scannable(l)} \cup {HelloLayout}

OffsetOf(layout, k) == Len(TextOf(SubSeq(layout, 1, k - 1)))

\* loc.start of the character at 0-based offset off: 1-based line, 0-based column
LineOf(src, off) == 1 + Cardinality({p \in 1..off : src[p] = "\n"})
ColumnOf(src, off) ==
    LET breaks == {p \in 1..off : src[p] = "\n"}
    IN  off - (IF breaks = {} THEN 0 ELSE CHOOSE p \in breaks : \A q \in breaks : q <= p)

SpanOf(layout, k) ==
    LET start == OffsetOf(layout, k)
    IN  [type |-> layout[k].type,
         value |-> layout[k].value,
         range |-> <<start, start + Len(layout[k].text)>>,
         line |-> LineOf(TextOf(layout), start),
         column |-> ColumnOf(TextOf(layout), start)]

AllSpans(layout) == [k \in 1..Len(layout) |-> SpanOf(layout, k)]

IsCommentType(t) == t \in {"Block", "Line"}
IsTokenSpan(s) == s.type \notin {"Block", "Line", "WhiteSpace", "Illegal"}
IsCommentSpan(s) == IsCommentType(s.type)

\* esprima.parse throws on an illegal character and on a syntax error; the
\* syntax error these files can contain is two identifiers on one line with
\* nothing but white space and comments between them.
ParseThrows(layout) ==
    LET toks == SelectSeq(AllSpans(layout), IsTokenSpan)
    IN  \/ \E k \in 1..Len(layout) : layout[k].type = "Illegal"
        \/ \E k \in 1..(Len(toks) - 1) :
              /\ toks[k].type = "Identifier"
              /\ toks[k + 1].type = "Identifier"
              /\ toks[k].line = toks[k + 1].line

\* output.comments and output.tokens, each in source order
EsprimaParse(layout) ==
    [comments |-> SelectSeq(AllSpans(layout), IsCommentSpan),
     tokens |-> SelectSeq(AllSpans(layout), IsTokenSpan)]

\* ------------------------------------------------------------- the merge
\* (a comparator that forgets the case of a later line)
comparatorNoLineGreater(a, b) ==
    IF a.line < b.line THEN -1
    ELSE IF a.column < b.column THEN -1 ELSE 1

\* the comparator given to sort: by start line, then start column; never 0
comparator(a, b) ==
    IF a.line < b.line THEN -1
    ELSE IF a.line > b.line THEN 1
    ELSE IF a.column < b.column THEN -1 ELSE 1

InsertAt(s, k, e) == SubSeq(s, 1, k - 1) \o <<e>> \o SubSeq(s, k, Len(s))

\* linear insertion: shift every earlier element that compares greater
RECURSIVE LinearPos(_, _, _)
LinearPos(p, element, j) ==
    IF j >= 1 /\ comparator(p[j], element) > 0
    THEN LinearPos(p, element, j - 1)
    ELSE j + 1

\* binary insertion: go left only when the pivot compares less
RECURSIVE BinaryPos(_, _, _, _)
BinaryPos(p, pivot, left, right) ==
    IF left < right
    THEN LET mid == left + ((right - left) \div 2)
         IN  IF comparator(pivot, p[mid]) < 0
             THEN BinaryPos(p, pivot, left, mid)
             ELSE BinaryPos(p, pivot, mid + 1, right)
    ELSE left

RECURSIVE LinearInsertionSort(_, _)
LinearInsertionSort(a, i) ==
    IF i > Len(a) THEN a
    ELSE LET p == SubSeq(a, 1, i - 1)
             sorted == InsertAt(p, LinearPos(p, a[i], i - 1), a[i])
         IN  LinearInsertionSort(sorted \o SubSeq(a, i + 1, Len(a)), i + 1)

RECURSIVE BinaryInsertionSort(_, _)
BinaryInsertionSort(a, i) ==
    IF i > Len(a) THEN a
    ELSE LET p == SubSeq(a, 1, i - 1)
             sorted == InsertAt(p, BinaryPos(p, a[i], 1, i), a[i])
         IN  BinaryInsertionSort(sorted \o SubSeq(a, i + 1, Len(a)), i + 1)

\* the results sort can give for this comparator
SortResults(a) == {LinearInsertionSort(a, 2), BinaryInsertionSort(a, 2)}

\* ------------------------------------------------------------- the pass
\* (a classification that takes every comment for prose)
isCommentAnyComment(token) == token.type \in {"Block", "Line"}

isComment(token) == token.type = "Block"

\* (a pass that starts in the code state)
InitialInCommentFalse == FALSE

InitialInComment == TRUE

\* (a pass that does not close the fence on entering a comment)
MarkerNoClose(token, inC) ==
    IF ~isComment(token) /\ inC = TRUE THEN OpenFence ELSE <<>>

\* the marker appended before a span, if any
Marker(token, inC) ==
    IF isComment(token) /\ inC = FALSE THEN CloseFence
    ELSE IF ~isComment(token) /\ inC = TRUE THEN OpenFence
    ELSE <<>>

\* (a pass that never records leaving a comment)
NextInCommentStuck(token, inC) ==
    IF isComment(token) /\ inC = FALSE THEN TRUE ELSE inC

NextInComment(token, inC) ==
    IF isComment(token) /\ inC = FALSE THEN TRUE
    ELSE IF ~isComment(token) /\ inC = TRUE THEN FALSE
    ELSE inC

\* the text appended for a span
Piece(src, token, prevEnd) ==
    IF ~isComment(token)
    THEN Substring(src, prevEnd, token.range[2])
    ELSE token.value

FinalMarker(inC) == IF inC = FALSE THEN CloseFence ELSE <<>>

\* ------------------------------------------------------------- state
VARIABLES
    fileExists,   \* whether fs.readFile can read the file named on the command line
    layout,       \* the file's content, as lexical items
    pc,           \* "reading", "read", "parsed", "loop", "done", "halted"
    sourceCode,   \* String(body)
    output,       \* what esprima.parse returned: [comments, tokens]
    allTokens,    \* the merged, sorted list
    i,            \* index of the next element forEach visits
    str,
    inComment,
    previousEnd,
    stdout,       \* the sequence of writes to process.stdout
    thrown,       \* whether an error was thrown out of the callback
    emitted       \* history of the pieces appended to str, in order

vars == <<fileExists, layout, pc, sourceCode, output, allTokens, i, str,
          inComment, previousEnd, stdout, thrown, emitted>>

NoOutput == [comments |-> <<>>, tokens |-> <<>>]

Blank ==
    /\ allTokens = <<>>
    /\ i = 1
    /\ str = <<>>
    /\ inComment = InitialInComment
    /\ previousEnd = Undefined
    /\ stdout = <<>>
    /\ thrown = FALSE
    /\ emitted = <<>>

Init ==
    /\ fileExists \in BOOLEAN
    /\ layout \in (IF fileExists THEN Layouts ELSE {<<>>})
    /\ pc = "reading"
    /\ sourceCode = <<>>
    /\ output = NoOutput
    /\ Blank

\* fs.readFile calls back with the body
ReadFileOk ==
    /\ pc = "reading"
    /\ fileExists
    /\ sourceCode' = TextOf(layout)
    /\ pc' = "read"
    /\ UNCHANGED <<fileExists, layout, output, allTokens, i, str, inComment,
                   previousEnd, stdout, thrown, emitted>>

\* fs.readFile calls back with an error, which the callback throws
ReadFileErr ==
    /\ pc = "reading"
    /\ ~fileExists
    /\ thrown' = TRUE
    /\ pc' = "halted"
    /\ UNCHANGED <<fileExists, layout, sourceCode, output, allTokens, i, str,
                   inComment, previousEnd, stdout, emitted>>

\* esprima.parse throws
ParseThrow ==
    /\ pc = "read"
    /\ ParseThrows(layout)
    /\ thrown' = TRUE
    /\ pc' = "halted"
    /\ UNCHANGED <<fileExists, layout, sourceCode, output, allTokens, i, str,
                   inComment, previousEnd, stdout, emitted>>

\* output.comments.concat(output.tokens).sort(...), then the pass's variables
Merge(out) ==
    /\ allTokens' \in SortResults(out.comments \o out.tokens)
    /\ str' = <<>>
    /\ inComment' = InitialInComment
    /\ previousEnd' = Undefined
    /\ i' = 1
    /\ pc' = "loop"

ParseAndMerge ==
    /\ pc = "read"
    /\ ~ParseThrows(layout)
    /\ output' = EsprimaParse(layout)
    /\ Merge(output')
    /\ UNCHANGED <<fileExists, layout, sourceCode, stdout, thrown, emitted>>

Seg(kind, text, idx, from, to) ==
    [kind |-> kind, text |-> text, idx |-> idx, from |-> from, to |-> to]

\* one call of the forEach callback
Step ==
    /\ pc = "loop"
    /\ i <= Len(allTokens)
    /\ LET token == allTokens[i]
           marker == Marker(token, inComment)
           end == token.range[2]
           piece == Piece(sourceCode, token, previousEnd)
       IN  /\ inComment' = NextInComment(token, inComment)
           /\ str' = str \o marker \o piece
           /\ previousEnd' = end
           /\ emitted' = emitted
                \o (IF marker = OpenFence THEN <<Seg("open", marker, i, 0, 0)>>
                    ELSE IF marker = CloseFence THEN <<Seg("close", marker, i, 0, 0)>>
                    ELSE <<>>)
                \o (IF isComment(token)
                    THEN <<Seg("prose", piece, i, 0, 0)>>
                    ELSE <<Seg("code", piece, i,
                               SubstringFrom(sourceCode, previousEnd, end),
                               SubstringTo(sourceCode, previousEnd, end))>>)
    /\ i' = i + 1
    /\ UNCHANGED <<fileExists, layout, pc, sourceCode, output, allTokens,
                   stdout, thrown>>

\* (a write placed inside the loop)
FinishInsideLoop ==
    /\ pc = "loop"
    /\ str' = str \o FinalMarker(inComment)
    /\ emitted' = emitted
          \o (IF FinalMarker(inComment) # <<>>
              THEN <<Seg("close", FinalMarker(inComment), i, 0, 0)>> ELSE <<>>)
    /\ stdout' = Append(stdout, str' \o Newline)
    /\ pc' = "done"
    /\ UNCHANGED <<fileExists, layout, sourceCode, output, allTokens, i,
                   inComment, previousEnd, thrown>>

\* after the loop: the final fence, and the one write
Finish ==
    /\ pc = "loop"
    /\ i > Len(allTokens)
    /\ str' = str \o FinalMarker(inComment)
    /\ emitted' = emitted
          \o (IF FinalMarker(inComment) # <<>>
              THEN <<Seg("close", FinalMarker(inComment), i, 0, 0)>> ELSE <<>>)
    /\ stdout' = Append(stdout, str' \o Newline)
    /\ pc' = "done"
    /\ UNCHANGED <<fileExists, layout, sourceCode, output, allTokens, i,
                   inComment, previousEnd, thrown>>

Next == ReadFileOk \/ ReadFileErr \/ ParseThrow \/ ParseAndMerge \/ Step \/ Finish

Spec == Init /\ [][Next]_vars

\* ------------------------------------- the merge and pass on given spans
\* buildTranscript(sourceText, comments, tokens) applied to span lists that
\* are handed over in any order and may start at the same position.
GivenSource == <<"a", "b", "\n", "c", "d">>

GivenSpan(type, line, column) ==
    LET off == (line - 1) * 3 + column
    IN  [type |-> type, value |-> <<GivenSource[off + 1]>>,
         range |-> <<off, off + 1>>, line |-> line, column |-> column]

GivenComments == {GivenSpan(t, l, c) : t \in {"Block", "Line"}, l \in 1..2, c \in 0..1}
GivenTokens == {GivenSpan("Identifier", l, c) : l \in 1..2, c \in 0..1}

InitSpans ==
    /\ fileExists = TRUE
    /\ layout = <<>>
    /\ pc = "parsed"
    /\ sourceCode = GivenSource
    /\ output \in [comments : BoundedSeqs(GivenComments, MaxSpans),
                   tokens : BoundedSeqs(GivenTokens, MaxSpans)]
    /\ Blank

MergeSpans ==
    /\ pc = "parsed"
    /\ Merge(output)
    /\ UNCHANGED <<fileExists, layout, sourceCode, output, stdout, thrown, emitted>>

NextSpans == MergeSpans \/ Step \/ Finish

SpecSpans == InitSpans /\ [][NextSpans]_vars

TypeOK ==
    /\ pc \in {"reading", "read", "parsed", "loop", "done", "halted"}
    /\ inComment \in BOOLEAN
    /\ previousEnd \in {Undefined} \cup (0..Len(sourceCode))
    /\ i \in 1..(Len(allTokens) + 1)
    /\ str = Flatten([k \in 1..Len(emitted) |-> emitted[k].text])

\* ------------------------------------------------------------ properties
Started == pc \in {"loop", "done"}

IsMarker(e) == e.kind \in {"open", "close"}
IsPieceSeg(e) == e.kind \in {"code", "prose"}
IsCodeSeg(e) == e.kind = "code"
IsProseSeg(e) == e.kind = "prose"

Texts(segs) == Flatten([k \in 1..Len(segs) |-> segs[k].text])
CountKind(segs, kind) == Cardinality({k \in 1..Len(segs) : segs[k].kind = kind})
Key(span) == <<span.line, span.column>>
KeyLeq(a, b) == a.line < b.line \/ (a.line = b.line /\ a.column <= b.column)
SameStart(a, b) == a.line = b.line /\ a.column = b.column

\* the characters of src outside the ranges of the block comments in spans
RECURSIVE Excised(_, _, _)
Excised(src, spans, p) ==
    IF p > Len(src) THEN <<>>
    ELSE (IF \E k \in 1..Len(spans) :
                /\ isComment(spans[k])
                /\ spans[k].range[1] < p /\ p <= spans[k].range[2]
          THEN <<>> ELSE <<src[p]>>)
         \o Excised(src, spans, p + 1)

\* C1: once the transcript is written, the code segments concatenated in
\* emission order are exactly the source text with the block comments
\* excised: no character outside a block comment is lost or duplicated.
C1_RoundTripCompleteness ==
    pc = "done" =>
        Texts(SelectSeq(emitted, IsCodeSeg)) = Excised(sourceCode, output.comments, 1)

\* C2: the fence markers alternate open, close, open, ... starting with an
\* open; a span is preceded by a marker exactly when its kind differs from
\* the kind before it (prose before the first span); and when the pass has
\* ended there are as many opens as closes, the final close being appended
\* exactly when the last span was code.
C2_FenceBalance ==
    Started =>
        LET ms == SelectSeq(emitted, IsMarker)
            last == Len(allTokens)
        IN  /\ \A k \in 1..Len(ms) :
                  /\ ms[k].kind = (IF k % 2 = 1 THEN "open" ELSE "close")
                  /\ ms[k].text = (IF k % 2 = 1 THEN OpenFence ELSE CloseFence)
            /\ \A j \in 1..(i - 1) :
                  LET switched ==
                          IF j = 1 THEN ~isComment(allTokens[1])
                          ELSE isComment(allTokens[j]) # isComment(allTokens[j - 1])
                      marks == {k \in 1..Len(emitted) :
                                   IsMarker(emitted[k]) /\ emitted[k].idx = j}
                  IN  /\ Cardinality(marks) = (IF switched THEN 1 ELSE 0)
                      /\ \A k \in marks :
                            /\ k < Len(emitted)
                            /\ IsPieceSeg(emitted[k + 1])
                            /\ emitted[k + 1].idx = j
            /\ pc = "loop" =>
                  CountKind(emitted, "open") - CountKind(emitted, "close")
                      = (IF inComment THEN 0 ELSE 1)
            /\ pc = "done" =>
                  /\ CountKind(emitted, "open") = CountKind(emitted, "close")
                  /\ (\E k \in 1..Len(emitted) :
                          emitted[k].kind = "close" /\ emitted[k].idx = last + 1)
                       <=> (last > 0 /\ ~isComment(allTokens[last]))
                  /\ stdout = <<Texts(emitted) \o Newline>>

C2_Witness ==
    /\ pc = "done"
    /\ CountKind(emitted, "open") >= 2
    /\ ~isComment(allTokens[Len(allTokens)])

\* C3: for a file with no comments, what is written is the opening fence,
\* a newline, the whole source text, and the closing fence with its newline.
C3_CodeOnlyOutput ==
    (pc = "done" /\ output.comments = <<>>) =>
        stdout = <<OpenFence \o Newline \o sourceCode \o CloseFence \o Newline>>

\* C4: the prose segments are the values of the block comments, each once
\* and in source order; when one is appended no fence is open; and a block
\* comment that directly follows another is appended right after it.
C4_BlockValuesOnce ==
    Started =>
        LET prose == SelectSeq(emitted, IsProseSeg)
            blocks == SelectSeq(SubSeq(allTokens, 1, i - 1), isComment)
        IN  /\ Len(prose) = Len(blocks)
            /\ \A k \in 1..Len(prose) :
                  /\ allTokens[prose[k].idx] = blocks[k]
                  /\ prose[k].text = blocks[k].value
                  /\ k > 1 => /\ prose[k - 1].idx < prose[k].idx
                              /\ blocks[k - 1].range[2] <= blocks[k].range[1]
            /\ pc = "done" => blocks = SelectSeq(output.comments, isComment)
            /\ \A k \in 1..Len(emitted) :
                  emitted[k].kind = "prose" =>
                      /\ CountKind(SubSeq(emitted, 1, k), "open")
                            = CountKind(SubSeq(emitted, 1, k), "close")
                      /\ (k > 1 /\ emitted[k].idx > 1
                               /\ isComment(allTokens[emitted[k].idx - 1])) =>
                            /\ emitted[k - 1].kind = "prose"
                            /\ emitted[k - 1].idx = emitted[k].idx - 1

C4_Witness ==
    /\ pc = "done"
    /\ \E k \in 2..(Len(emitted) - 1) :
          /\ emitted[k].kind = "prose"
          /\ emitted[k + 1].kind = "prose"
          /\ emitted[k - 1].kind = "close"

\* C5: a span becomes prose exactly when its type is Block; a block comment
\* contributes its value and no code segment covers any character of its
\* range; a line comment is code: no closing fence precedes it and its whole
\* range, delimiter included, is inside its code segment.
C5_Classification ==
    Started =>
        \A k \in 1..Len(emitted) :
            IsPieceSeg(emitted[k]) =>
                LET e == emitted[k]
                    t == allTokens[e.idx]
                IN  /\ (e.kind = "prose") <=> (t.type = "Block")
                    /\ e.kind = "prose" => e.text = t.value
                    /\ e.kind = "code" =>
                          /\ e.text = SubSeq(sourceCode, e.from + 1, e.to)
                          /\ \A j \in 1..Len(allTokens) :
                                allTokens[j].type = "Block" =>
                                    \/ e.to <= allTokens[j].range[1]
                                    \/ e.from >= allTokens[j].range[2]
                    /\ t.type = "Line" =>
                          /\ e.kind = "code"
                          /\ e.from <= t.range[1]
                          /\ e.to = t.range[2]
                          /\ SubSeq(sourceCode, t.range[1] + 1, t.range[1] + 2) = <<"/", "/">>
                          /\ ~(k > 1 /\ emitted[k - 1].kind = "close")

C5_Witness ==
    /\ pc = "done"
    /\ \E j, k \in 1..Len(allTokens) :
          /\ j < k
          /\ allTokens[j].type = "Block"
          /\ allTokens[k].type = "Line"

\* C6: when the first span is a block comment the output starts with its
\* value, the first marker is an opening fence and belongs to the first
\* span that is not a block comment; and the file "/* hello */\nvar x = 1;"
\* gives the comment text, an opening fence, "\nvar x = 1;", a closing fence.
FirstCode(tokens) ==
    LET codes == {j \in 1..Len(tokens) : ~isComment(tokens[j])}
    IN  IF codes = {} THEN 0 ELSE CHOOSE j \in codes : \A h \in codes : j <= h

C6_LeadingComment ==
    /\ (Started /\ i > 1 /\ isComment(allTokens[1])) =>
          LET ms == SelectSeq(emitted, IsMarker)
          IN  /\ emitted[1].kind = "prose"
              /\ SubSeq(str, 1, Len(allTokens[1].value)) = allTokens[1].value
              /\ ms # <<>> => /\ ms[1].kind = "open"
                              /\ ms[1].idx = FirstCode(allTokens)
              /\ (FirstCode(allTokens) # 0 /\ FirstCode(allTokens) < i) => ms # <<>>
    /\ (pc = "done" /\ layout = HelloLayout) =>
          /\ stdout = << HelloBlock.value \o OpenFence
                           \o <<"\n", "v", "a", "r", " ", "x", " ", "=", " ", "1", ";">>
                           \o CloseFence \o Newline >>
          /\ [k \in 1..Len(emitted) |-> emitted[k].kind]
                = <<"prose", "open", "code", "code", "code", "code", "code", "close">>

C6_Witness == pc = "done" /\ layout = HelloLayout

\* C7: whatever the order of the comment list and of the token list, the
\* merged list is the two lists' elements ordered by start line, then start
\* column, and the segments are emitted in that order.
C7_Ordering ==
    Started =>
        LET given == output.comments \o output.tokens
            pieces == SelectSeq(emitted, IsPieceSeg)
        IN  /\ Len(allTokens) = Len(given)
            /\ \A k \in 1..Len(given) :
                  Cardinality({j \in 1..Len(given) : given[j] = given[k]})
                    = Cardinality({j \in 1..Len(allTokens) : allTokens[j] = given[k]})
            /\ \A j, k \in 1..Len(allTokens) :
                  j < k => KeyLeq(allTokens[j], allTokens[k])
            /\ \A k \in 1..Len(pieces) : pieces[k].idx = k
            /\ \A j, k \in 1..Len(pieces) :
                  j < k => KeyLeq(allTokens[pieces[j].idx], allTokens[pieces[k].idx])

C7_Witness ==
    /\ pc = "done"
    /\ Len(output.comments) = 2
    /\ ~KeyLeq(output.comments[1], output.comments[2])
    /\ Len(output.tokens) = 2
    /\ ~KeyLeq(output.tokens[1], output.tokens[2])
    /\ Len(SelectSeq(emitted, IsPieceSeg)) = 4

\* C8: standard output receives one write, made after the pass has visited
\* every span; a run whose read fails or whose parse throws halts with the
\* error and writes nothing.
C8_AllOrNothing ==
    /\ Len(stdout) <= 1
    /\ (stdout # <<>>) <=> (pc = "done")
    /\ pc = "done" => /\ i = Len(allTokens) + 1
                      /\ stdout[1] = str \o Newline
    /\ thrown <=> (pc = "halted")
    /\ (~fileExists \/ ParseThrows(layout)) =>
          /\ pc \in {"reading", "read", "halted"}
          /\ stdout = <<>>
          /\ str = <<>>
    /\ (fileExists /\ ~ParseThrows(layout)) => ~thrown

C8_Witness ==
    /\ pc = "halted"
    /\ fileExists
    /\ Len(layout) >= 2
    /\ IsTokenSpan(SpanOf(layout, 1))

C10_PreviousEndAssigned ==
    (pc = "loop" /\ i <= Len(allTokens)) =>
        /\ ~isComment(allTokens[i]) => previousEnd # Undefined
        /\ previousEnd = Undefined => (i = 1 /\ isComment(allTokens[1]))
====
